---- MODULE Spec2Model ----
(***************************************************************************)
(* Customer churn pipeline (churn_library.py) and its logging test script  *)
(* (churn_script_logging_and_tests.py).                                    *)
(*                                                                         *)
(* A pandas DataFrame is a record [cols, n, data]: cols is the ordered     *)
(* sequence of column names, n the number of rows and data[c][i] the cell  *)
(* of row i in column c.  Python objects live in a heap (a sequence of     *)
(* tables); a variable of the program is an index into it, so that         *)
(* aliasing and in-place column assignment are visible.                    *)
(***************************************************************************)
EXTENDS Integers, Sequences, FiniteSets, TLC

VARIABLES
    heap,     \* the tables the caller (or the script) holds
    pre,      \* the caller's table as it was when the last stage was called
    call,     \* the last stage call: its arguments and its outcome
    parts,    \* the partitions perform_feature_engineering returned last
    files,    \* the output files on disk
    written,  \* the output files created or overwritten by this run
    ncalls,   \* number of stage calls made
    prog,     \* "script" (churn_library.py), "harness" (the test script), "api"
    pc,       \* position of the run
    err,      \* the exception that ended the run ("" when none)
    csv,      \* ./data/bank_data.csv: whether it exists, and its table
    calls,    \* the stage invocations of the run, each with a fact about its input
    passed    \* the test functions that completed without raising

vars == <<heap, pre, call, parts, files, written, ncalls,
          prog, pc, err, csv, calls, passed>>

(***************************************************************************)
(* Bounds of the model.                                                    *)
(***************************************************************************)
MaxRows == 2
MaxCalls == 2

(***************************************************************************)
(* Cells.  A cell is a string label, a number (a reduced fraction n/d, so  *)
(* that group means are exact) or NaN (a missing value).                   *)
(***************************************************************************)
Str(s) == [k |-> "str", s |-> s, n |-> 0, d |-> 1]

NaN == [k |-> "nan", s |-> "", n |-> 0, d |-> 1]

RECURSIVE GCD(_, _)
GCD(a, b) == IF b = 0 THEN a ELSE GCD(b, a % b)

Num(n, d) ==
    LET g == GCD(n, d)
    IN [k |-> "num", s |-> "", n |-> n \div g, d |-> d \div g]

IntCell(n) == Num(n, 1)

AddQ(a, b) == Num(a.n * b.d + b.n * a.d, a.d * b.d)

\* F applied to the value of v, which is computed once
With(v, F(_)) == CHOOSE y \in {F(x) : x \in {v}} : TRUE

Some(x) == <<x>>

None == <<>>

\* Python truthiness of the `response` argument: None and '' are falsy.
Truthy(response) == response # None /\ response[1] # ""

(***************************************************************************)
(* DataFrame operations.                                                   *)
(***************************************************************************)
EmptyFrame == [cols |-> <<>>, n |-> 0, data |-> <<>>]

NRows(t) == t.n

HasCol(t, name) == name \in DOMAIN t.data

\* df[name] read as a Series, in row order
Column(t, name) == t.data[name]

\* A bug variant: the values are always added as a new last column.
AssignColumnAppend(t, name, vals) ==
    [cols |-> Append(t.cols, name), n |-> t.n,
     data |-> [c \in DOMAIN t.data \cup {name} |-> IF c = name THEN vals ELSE t.data[c]]]

\* df[name] = vals on the object itself: replaces the column when it exists,
\* appends it as the last column otherwise.
AssignColumn(t, name, vals) ==
    IF HasCol(t, name)
    THEN [t EXCEPT !.data[name] = vals]
    ELSE [cols |-> Append(t.cols, name), n |-> t.n,
          data |-> [c \in DOMAIN t.data \cup {name} |->
                       IF c = name THEN vals ELSE t.data[c]]]

\* The same assignment through a reference: mutates the heap object.
SetColumn(h, r, name, vals) == [h EXCEPT ![r] = AssignColumn(h[r], name, vals)]

\* A bug variant: the "copy" is another name for the same object.
CopyAlias(h, r) == [h |-> h, ref |-> r]

\* A bug variant: start from an empty frame instead of a copy.
CopyEmpty(h, r) == [h |-> Append(h, EmptyFrame), ref |-> Len(h) + 1]

\* dataframe.copy(deep=True): a new object with the same columns and cells.
Copy(h, r) == [h |-> Append(h, h[r]), ref |-> Len(h) + 1]

(***************************************************************************)
(* perform_eda                                                             *)
(***************************************************************************)
columns_to_plot == <<"Churn", "Customer_Age", "Marital_Status", "Total_Trans_Ct">>

\* column.lower().replace(" ", "_") on the plotted column names
LowerName(column) ==
    CASE column = "Churn" -> "churn"
      [] column = "Customer_Age" -> "customer_age"
      [] column = "Marital_Status" -> "marital_status"
      [] column = "Total_Trans_Ct" -> "total_trans_ct"
      [] OTHER -> column

EdaFile(column) == "./images/eda/" \o LowerName(column) \o "_distribution.png"

HeatmapFile == "./images/eda/heatmap.png"

\* A bug variant: a missing flag gives a missing label.
ChurnOfKeepNull(val) ==
    IF val = NaN THEN NaN
    ELSE IF val = Str("Existing Customer") THEN IntCell(0) ELSE IntCell(1)

\* A bug variant: only "Attrited Customer" counts as churn.
ChurnOfAttrited(val) == IF val = Str("Attrited Customer") THEN IntCell(1) ELSE IntCell(0)

\* lambda val: 0 if val == "Existing Customer" else 1
ChurnOf(val) == IF val = Str("Existing Customer") THEN IntCell(0) ELSE IntCell(1)

\* The plotting loop: each column is read (KeyError when it is missing) and
\* its figure saved, in order; wrote is the set of files saved so far.
RECURSIVE PlotLoop(_, _, _)
PlotLoop(t, wrote, k) ==
    IF k > Len(columns_to_plot)
    THEN [raised |-> "", wrote |-> wrote \cup {HeatmapFile}]
    ELSE IF ~HasCol(t, columns_to_plot[k])
         THEN [raised |-> "KeyError", wrote |-> wrote]
         ELSE PlotLoop(t, wrote \cup {EdaFile(columns_to_plot[k])}, k + 1)

\* Result of a stage: the heap after it, the returned reference (0 when it
\* raised), the exception name ("" when it returned) and the files it saved.
perform_eda(h, dataframe) ==
    LET c == Copy(h, dataframe)
        eda_df == c.ref
    IN IF ~HasCol(c.h[eda_df], "Attrition_Flag")
       THEN [h |-> c.h, ret |-> 0, raised |-> "KeyError", wrote |-> {}]
       ELSE LET attr == Column(c.h[eda_df], "Attrition_Flag")
                h1 == SetColumn(c.h, eda_df, "Churn",
                                [i \in DOMAIN attr |-> ChurnOf(attr[i])])
                p == PlotLoop(h1[eda_df], {}, 1)
            IN [h |-> h1, ret |-> IF p.raised = "" THEN eda_df ELSE 0,
                raised |-> p.raised, wrote |-> p.wrote]

(***************************************************************************)
(* encoder_helper                                                          *)
(***************************************************************************)
RECURSIVE SumQ(_, _, _)
\* sum of vals[i] over the rows i in idx
SumQ(vals, idx, acc) ==
    IF idx = {} THEN acc
    ELSE LET i == CHOOSE x \in idx : TRUE
         IN SumQ(vals, idx \ {i}, AddQ(acc, vals[i]))

RowsOf(t, category, key) ==
    LET vals == Column(t, category)
    IN {i \in DOMAIN vals : vals[i] = key}

\* A bug variant: per-group sum of Churn instead of its mean.
GroupSum(t, category, key) == SumQ(Column(t, "Churn"), RowsOf(t, category, key), IntCell(0))

\* mean of Churn over the rows of one group
GroupMean(t, category, key) ==
    LET idx == RowsOf(t, category, key)
        sum == SumQ(Column(t, "Churn"), idx, IntCell(0))
    IN Num(sum.n, sum.d * Cardinality(idx))

\* dataframe.groupby(category).mean()['Churn']: a Series indexed by the
\* category values present in the table; groupby drops NaN keys.
GroupBy(t, category) ==
    LET vals == Column(t, category)
        keys == {vals[i] : i \in DOMAIN vals} \ {NaN}
    IN [key \in keys |-> GroupMean(t, category, key)]

\* A bug variant: the separator is left out.
ResponseColumnNoSep(category, response) == category \o response[1]

\* category + '_' + response
ResponseColumn(category, response) == category \o "_" \o response[1]

RECURSIVE EncodeLoop(_, _, _, _, _, _)
\* One iteration of `for category in category_lst` per level; dataframe and
\* encoder_df are references into h.
EncodeLoop(h, dataframe, encoder_df, category_lst, response, k) ==
    IF k > Len(category_lst)
    THEN [h |-> h, ret |-> encoder_df, raised |-> "", wrote |-> {}]
    ELSE LET category == category_lst[k]
             df == h[dataframe]
         IN IF ~HasCol(df, category) \/ ~HasCol(df, "Churn") \/ category = "Churn"
            THEN [h |-> h, ret |-> 0, raised |-> "KeyError", wrote |-> {}]
            ELSE LET column_groups == GroupBy(df, category)
                     vals == Column(df, category)
                 IN IF \E i \in DOMAIN vals : vals[i] \notin DOMAIN column_groups
                    THEN [h |-> h, ret |-> 0, raised |-> "KeyError", wrote |-> {}]
                    ELSE LET column_lst == [i \in DOMAIN vals |-> column_groups[vals[i]]]
                             target == IF Truthy(response)
                                       THEN ResponseColumn(category, response)
                                       ELSE category
                         IN With(SetColumn(h, encoder_df, target, column_lst),
                                 LAMBDA h1 : EncodeLoop(h1, dataframe, encoder_df,
                                                        category_lst, response, k + 1))

encoder_helper(h, dataframe, category_lst, response) ==
    With(Copy(h, dataframe),
         LAMBDA c : EncodeLoop(c.h, dataframe, c.ref, category_lst, response, 1))

(***************************************************************************)
(* perform_feature_engineering                                             *)
(***************************************************************************)
cat_columns ==
    <<"Gender", "Education_Level", "Marital_Status", "Income_Category", "Card_Category">>

keep_cols ==
    <<"Customer_Age", "Dependent_count", "Months_on_book", "Total_Relationship_Count",
      "Months_Inactive_12_mon", "Contacts_Count_12_mon", "Credit_Limit",
      "Total_Revolving_Bal", "Avg_Open_To_Buy", "Total_Amt_Chng_Q4_Q1",
      "Total_Trans_Amt", "Total_Trans_Ct", "Total_Ct_Chng_Q4_Q1",
      "Avg_Utilization_Ratio", "Gender_Churn", "Education_Level_Churn",
      "Marital_Status_Churn", "Income_Category_Churn", "Card_Category_Churn">>

\* test_size=0.3, as the fraction TestSizeNum / TestSizeDen
TestSizeNum == 3

TestSizeDen == 10

\* encoded_df[keep_cols]: the named columns, in the order of the list
Select(t, names) ==
    [cols |-> names, n |-> t.n,
     data |-> [c \in {names[j] : j \in 1..Len(names)} |-> t.data[c]]]

\* the entries perm[from], ..., perm[to] of a column, in that order
TakeRows(vals, perm, from, to) == [i \in 1..(to - from + 1) |-> vals[perm[from + i - 1]]]

\* the rows perm[from], ..., perm[to] of a table, in that order
TakeFrame(t, perm, from, to) ==
    [cols |-> t.cols, n |-> to - from + 1,
     data |-> [c \in DOMAIN t.data |-> TakeRows(t.data[c], perm, from, to)]]

NoParts == [x_train |-> EmptyFrame, x_test |-> EmptyFrame, y_train |-> <<>>, y_test |-> <<>>]

\* ceil(test_size * n_samples)
NTest(n) == (TestSizeNum * n + TestSizeDen - 1) \div TestSizeDen

\* train_test_split(x, y, test_size=0.3, random_state=42).  perm is the
\* permutation of the rows the seeded generator draws: the test partition is
\* its first n_test rows, the train partition the rest.
train_test_split(x, y, perm) ==
    LET n == NRows(x)
        n_test == NTest(n)
        n_train == n - n_test
    IN IF n_train = 0
       THEN [raised |-> "ValueError", parts |-> NoParts]
       ELSE [raised |-> "",
             parts |-> [x_train |-> TakeFrame(x, perm, n_test + 1, n),
                        x_test |-> TakeFrame(x, perm, 1, n_test),
                        y_train |-> TakeRows(y, perm, n_test + 1, n),
                        y_test |-> TakeRows(y, perm, 1, n_test)]]

FeatureSplit(e, perm) ==
    IF e.raised # ""
    THEN [h |-> e.h, raised |-> e.raised, parts |-> NoParts]
    ELSE LET encoded_df == e.h[e.ret]
         IN IF \E j \in 1..Len(keep_cols) : ~HasCol(encoded_df, keep_cols[j])
            THEN [h |-> e.h, raised |-> "KeyError", parts |-> NoParts]
            ELSE LET target_feature == Column(encoded_df, "Churn")
                     x_dataframe == Select(encoded_df, keep_cols)
                     s == train_test_split(x_dataframe, target_feature, perm)
                 IN [h |-> e.h, raised |-> s.raised, parts |-> s.parts]

perform_feature_engineering(h, dataframe, response, perm) ==
    With(encoder_helper(h, dataframe, cat_columns, response),
         LAMBDA encoded : FeatureSplit(encoded, perm))

(***************************************************************************)
(* train_models                                                            *)
(***************************************************************************)
\* The files train_models saves, in the order it saves them.
TrainOutputs ==
    <<"./models/rfc_model.pkl", "./models/logistic_model.pkl",
      "./images/results/roc_curve_result.png", "./images/results/rf_results.png",
      "./images/results/logistic_results.png", "./images/results/feature_importances.png">>

\* Fitting, predicting and plotting are library calls that may raise.  saved
\* is the number of files saved before a library call raises; Len(TrainOutputs)
\* when none does.
train_models(p, saved) ==
    [raised |-> IF saved < Len(TrainOutputs) THEN "ValueError" ELSE "",
     wrote |-> {TrainOutputs[k] : k \in 1..saved}]

(***************************************************************************)
(* Input tables: the columns of ./data/bank_data.csv that the code reads.  *)
(* Only Attrition_Flag and Gender vary between rows; a table may lack one  *)
(* of the columns the stages read.  Tables are taken up to the order of    *)
(* their rows: the stages treat a row independently of its position, and   *)
(* the split draws every permutation.                                      *)
(***************************************************************************)
DatasetCols ==
    <<"Attrition_Flag", "Customer_Age", "Gender", "Dependent_count", "Education_Level",
      "Marital_Status", "Income_Category", "Card_Category", "Months_on_book",
      "Total_Relationship_Count", "Months_Inactive_12_mon", "Contacts_Count_12_mon",
      "Credit_Limit", "Total_Revolving_Bal", "Avg_Open_To_Buy", "Total_Amt_Chng_Q4_Q1",
      "Total_Trans_Amt", "Total_Trans_Ct", "Total_Ct_Chng_Q4_Q1", "Avg_Utilization_Ratio">>

RowKinds ==
    <<[attr |-> Str("Existing Customer"), gender |-> Str("M")],
      [attr |-> Str("Attrited Customer"), gender |-> Str("M")],
      [attr |-> Str("Attrited Customer"), gender |-> Str("F")],
      [attr |-> NaN, gender |-> Str("M")],
      [attr |-> Str("Existing Customer"), gender |-> NaN]>>

\* the sequences of n row kinds, up to their order
KindSeqs(n) ==
    {[i \in 1..n |-> RowKinds[ix[i]]] :
        ix \in {f \in [1..n -> 1..Len(RowKinds)] : \A i \in 1..(n - 1) : f[i] <= f[i + 1]}}

CellFor(col, kind) ==
    CASE col = "Attrition_Flag" -> kind.attr
      [] col = "Gender" -> kind.gender
      [] col = "Education_Level" -> Str("Graduate")
      [] col = "Marital_Status" -> Str("Married")
      [] col = "Income_Category" -> Str("$60K - $80K")
      [] col = "Card_Category" -> Str("Blue")
      [] OTHER -> IntCell(1)

\* the columns of DatasetCols other than `missing`
ColsWithout(missing) == SelectSeq(DatasetCols, LAMBDA c : c # missing)

Dataset(kinds, missing) ==
    LET cols == ColsWithout(missing)
    IN [cols |-> cols, n |-> Len(kinds),
        data |-> [c \in {cols[j] : j \in 1..Len(cols)} |->
                     [i \in 1..Len(kinds) |-> CellFor(c, kinds[i])]]]

MissingChoices == {"", "Attrition_Flag", "Total_Trans_Ct"}

Datasets ==
    {Dataset(kinds, missing) :
        kinds \in UNION {KindSeqs(n) : n \in 0..MaxRows}, missing \in MissingChoices}

\* Arguments the callers pass to encoder_helper.
CategoryLists ==
    {<<>>, <<"Gender">>, <<"Gender", "Gender">>, <<"Churn">>, cat_columns}

Responses == {None, Some(""), Some("Churn")}

(***************************************************************************)
(* Calls of the stages on a table the caller holds (heap[1]).  After a     *)
(* call the caller holds its argument and, at heap[2], the table returned. *)
(***************************************************************************)
NoCall == [op |-> "", category_lst |-> <<>>, response |-> None, ret |-> 0, raised |-> ""]

NoCsv == [exists |-> FALSE, table |-> EmptyFrame]

\* what the caller still references after a call
Keep(h, ret) == IF ret \in {0, 1} THEN <<h[1]>> ELSE <<h[1], h[ret]>>

RetRef(ret) == IF ret \in {0, 1} THEN ret ELSE 2

Init ==
    /\ \E t \in Datasets : heap = <<t>> /\ pre = t
    /\ call = NoCall
    /\ parts = NoParts
    /\ files = {}
    /\ written = {}
    /\ ncalls = 0
    /\ prog = "api" /\ pc = "idle" /\ err = "" /\ csv = NoCsv /\ calls = {}
    /\ passed = {}

RunIdle == UNCHANGED <<prog, pc, err, csv, calls, passed>>

CallPerformEda ==
    /\ ncalls < MaxCalls
    /\ LET r == perform_eda(heap, 1)
       IN /\ heap' = Keep(r.h, r.ret)
          /\ call' = [NoCall EXCEPT !.op = "perform_eda", !.ret = RetRef(r.ret),
                                    !.raised = r.raised]
          /\ files' = files \cup r.wrote
          /\ written' = written \cup r.wrote
    /\ pre' = heap[1]
    /\ parts' = NoParts
    /\ ncalls' = ncalls + 1
    /\ RunIdle

CallEncoderHelper ==
    /\ ncalls < MaxCalls
    /\ \E category_lst \in CategoryLists, response \in Responses :
          LET r == encoder_helper(heap, 1, category_lst, response)
          IN /\ heap' = Keep(r.h, r.ret)
             /\ call' = [op |-> "encoder_helper", category_lst |-> category_lst,
                         response |-> response, ret |-> RetRef(r.ret), raised |-> r.raised]
    /\ pre' = heap[1]
    /\ parts' = NoParts
    /\ ncalls' = ncalls + 1
    /\ UNCHANGED <<files, written>>
    /\ RunIdle

CallPerformFeatureEngineering ==
    /\ ncalls < MaxCalls
    /\ \E response \in {None, Some("Churn")}, perm \in Permutations(1..NRows(heap[1])) :
          LET r == perform_feature_engineering(heap, 1, response, perm)
          IN /\ heap' = <<r.h[1]>>
             /\ call' = [NoCall EXCEPT !.op = "perform_feature_engineering",
                                       !.response = response, !.raised = r.raised]
             /\ parts' = r.parts
    /\ pre' = heap[1]
    /\ ncalls' = ncalls + 1
    /\ UNCHANGED <<files, written>>
    /\ RunIdle

\* The caller derives Churn on its own table, in place, as the test script
\* does before it calls encoder_helper and perform_feature_engineering.
DeriveChurnInline ==
    /\ call = NoCall
    /\ HasCol(heap[1], "Attrition_Flag")
    /\ ~HasCol(heap[1], "Churn")
    /\ LET attr == Column(heap[1], "Attrition_Flag")
       IN heap' = SetColumn(heap, 1, "Churn", [i \in DOMAIN attr |-> ChurnOf(attr[i])])
    /\ pre' = heap'[1]
    /\ UNCHANGED <<call, parts, files, written, ncalls>>
    /\ RunIdle

\* The caller passes the returned table on to the next stage
\* (EDA_DF = perform_eda(BANK_DF); perform_feature_engineering(EDA_DF)).
Rebind ==
    /\ call.ret = 2
    /\ heap' = <<heap[2]>>
    /\ pre' = heap[2]
    /\ call' = NoCall
    /\ UNCHANGED <<parts, files, written, ncalls>>
    /\ RunIdle

Next ==
    \/ CallPerformEda
    \/ CallEncoderHelper
    \/ CallPerformFeatureEngineering
    \/ DeriveChurnInline
    \/ Rebind

Spec == Init /\ [][Next]_vars

(***************************************************************************)
(* import_data and the runs of the two scripts                             *)
(***************************************************************************)
\* A bug variant: a missing file is read as an empty table.
import_data_swallow(file) == [raised |-> "", table |-> file.table]

\* pd.read_csv(pth)
import_data(file) ==
    IF file.exists
    THEN [raised |-> "", table |-> file.table]
    ELSE [raised |-> "FileNotFoundError", table |-> EmptyFrame]

LogFile == "./logs/churn_library.log"

image_files ==
    <<"churn_distribution.png", "customer_age_distribution.png",
      "marital_status_distribution.png", "total_trans_ct_distribution.png", "heatmap.png">>

\* the paths test_eda asserts: f"./images/eda/{image_file}"
EdaImages == {"./images/eda/" \o image_files[k] : k \in 1..Len(image_files)}

ModelAndResultFiles == {TrainOutputs[k] : k \in 1..Len(TrainOutputs)}

OutputFiles == EdaImages \cup ModelAndResultFiles \cup {LogFile}

\* Contents of the output directories when a run starts: a fresh checkout,
\* or what an earlier run left (all of it, or all but the heatmap).
InitialDisks == {{}, OutputFiles, OutputFiles \ {HeatmapFile}}

InitRun ==
    /\ prog \in {"script", "harness"}
    /\ pc = "start"
    /\ err = ""
    /\ csv \in {NoCsv} \cup {[exists |-> TRUE, table |-> t] : t \in Datasets}
    /\ files \in InitialDisks
    /\ written = {}
    /\ calls = {}
    /\ passed = {}
    /\ heap = <<>> /\ pre = EmptyFrame /\ call = NoCall /\ parts = NoParts /\ ncalls = 0

StageIdle == UNCHANGED <<pre, call, ncalls>>

\* an uncaught exception ends the run
Raise(e) == pc' = "raised" /\ err' = e

Save(wrote) == files' = files \cup wrote /\ written' = written \cup wrote

(* churn_library.py, __main__ *)
ScriptImport ==
    /\ prog = "script" /\ pc = "start"
    /\ LET r == import_data(csv)
       IN IF r.raised # ""
          THEN Raise(r.raised) /\ UNCHANGED heap
          ELSE heap' = <<r.table>> /\ pc' = "perform_eda" /\ UNCHANGED err
    /\ UNCHANGED <<parts, files, written, prog, csv, calls, passed>>
    /\ StageIdle

ScriptEda ==
    /\ prog = "script" /\ pc = "perform_eda"
    /\ LET r == perform_eda(heap, 1)
       IN /\ Save(r.wrote)
          /\ IF r.raised # ""
             THEN Raise(r.raised) /\ UNCHANGED heap
             ELSE heap' = <<r.h[1], r.h[r.ret]>> /\ pc' = "perform_feature_engineering"
                  /\ UNCHANGED err
    /\ UNCHANGED <<parts, prog, csv, calls, passed>>
    /\ StageIdle

ScriptFeatureEngineering ==
    /\ prog = "script" /\ pc = "perform_feature_engineering"
    /\ \E perm \in Permutations(1..NRows(heap[2])) :
          LET r == perform_feature_engineering(heap, 2, Some("Churn"), perm)
          IN /\ parts' = r.parts
             /\ IF r.raised # ""
                THEN Raise(r.raised)
                ELSE pc' = "train_models" /\ UNCHANGED err
    /\ calls' = calls \cup {[op |-> "perform_feature_engineering",
                             input_ok |-> HasCol(heap[2], "Churn")]}
    /\ UNCHANGED <<heap, files, written, prog, csv, passed>>
    /\ StageIdle

ScriptTrain ==
    /\ prog = "script" /\ pc = "train_models"
    /\ \E saved \in 0..Len(TrainOutputs) :
          LET r == train_models(parts, saved)
          IN /\ Save(r.wrote)
             /\ IF r.raised # "" THEN Raise(r.raised) ELSE pc' = "done" /\ UNCHANGED err
    /\ calls' = calls \cup {[op |-> "train_models", input_ok |-> parts # NoParts]}
    /\ UNCHANGED <<heap, parts, prog, csv, passed>>
    /\ StageIdle

(* churn_script_logging_and_tests.py.  Each test function is a whole step:   *)
(* its result names the exception it lets escape ("" when it completes), the *)
(* files the stages it ran saved, and the stage invocations it made.         *)

\* dataframe['Churn'] = dataframe['Attrition_Flag'].apply(...) on the test's own table
derive_churn(h, dataframe) ==
    LET attr == Column(h[dataframe], "Attrition_Flag")
    IN SetColumn(h, dataframe, "Churn", [i \in DOMAIN attr |-> ChurnOf(attr[i])])

test_import(file) ==
    LET r == import_data(file)
    IN IF r.raised # "" THEN r.raised
       ELSE IF ~(NRows(r.table) > 0 /\ Len(r.table.cols) > 0) THEN "AssertionError"
       ELSE ""

test_eda(file, disk) ==
    LET r == import_data(file)
    IN IF r.raised # "" THEN [raised |-> r.raised, wrote |-> {}]
       ELSE LET e == perform_eda(<<r.table>>, 1)   \* its exception is only logged
            IN [raised |-> IF EdaImages \subseteq disk \cup e.wrote THEN "" ELSE "AssertionError",
                wrote |-> e.wrote]

test_encoder_helper(file) ==
    LET r == import_data(file)
    IN IF r.raised # "" THEN r.raised
       ELSE IF ~HasCol(r.table, "Attrition_Flag") THEN "KeyError"
       ELSE
         LET h0 == derive_churn(<<r.table>>, 1)
             e1 == encoder_helper(h0, 1, <<>>, None)
         IN IF e1.raised # "" THEN e1.raised
            ELSE IF e1.h[e1.ret] # e1.h[1] THEN "AssertionError"
            ELSE
              LET e2 == encoder_helper(e1.h, 1, cat_columns, None)
              IN IF e2.raised # "" THEN e2.raised
                 ELSE IF ~(e2.h[e2.ret].cols = e2.h[1].cols /\ e2.h[e2.ret] # e2.h[1])
                 THEN "AssertionError"
                 ELSE
                   LET e3 == encoder_helper(e2.h, 1, cat_columns, Some("Churn"))
                   IN IF e3.raised # "" THEN e3.raised
                      ELSE IF ~(/\ e3.h[e3.ret].cols # e3.h[1].cols
                                /\ e3.h[e3.ret] # e3.h[1]
                                /\ Len(e3.h[e3.ret].cols) = Len(e3.h[1].cols) + Len(cat_columns))
                      THEN "AssertionError"
                      ELSE ""

\* two_test_level is False: nothing is asserted, and every exception is only logged.
test_perform_feature_engineering(file, perm) ==
    LET r == import_data(file)
    IN IF r.raised # "" THEN [raised |-> "", calls |-> {}]
       ELSE LET f == perform_feature_engineering(<<r.table>>, 1, Some("Churn"), perm)
            IN [raised |-> "",
                calls |-> {[op |-> "perform_feature_engineering",
                            input_ok |-> HasCol(r.table, "Churn")]}]

test_train_models(file, perm, saved, disk) ==
    LET r == import_data(file)
        none == [raised |-> "", wrote |-> {}, calls |-> {}, parts |-> NoParts]
    IN IF r.raised # "" THEN [none EXCEPT !.raised = r.raised]
       ELSE IF ~HasCol(r.table, "Attrition_Flag") THEN [none EXCEPT !.raised = "KeyError"]
       ELSE
         LET h0 == derive_churn(<<r.table>>, 1)
             f == perform_feature_engineering(h0, 1, Some("Churn"), perm)
             fe == {[op |-> "perform_feature_engineering", input_ok |-> HasCol(h0[1], "Churn")]}
         IN IF f.raised # "" THEN [none EXCEPT !.raised = f.raised, !.calls = fe]
            ELSE
              LET t == train_models(f.parts, saved)
                  both == fe \cup {[op |-> "train_models", input_ok |-> f.parts # NoParts]}
              IN [raised |-> IF t.raised # "" THEN t.raised
                             ELSE IF ModelAndResultFiles \subseteq disk \cup t.wrote THEN ""
                             ELSE "AssertionError",
                  wrote |-> t.wrote, calls |-> both, parts |-> f.parts]

\* import of the module: logging.basicConfig(filename=..., filemode='w') opens
\* (creates or truncates) the log file.
HarnessLoad ==
    /\ prog = "harness" /\ pc = "start"
    /\ Save({LogFile})
    /\ pc' = "test_import"
    /\ UNCHANGED <<heap, parts, prog, err, csv, calls, passed>>
    /\ StageIdle

\* a test function that returned: the next one runs
Passed(name, next) == pc' = next /\ passed' = passed \cup {name} /\ UNCHANGED err

RunTestImport ==
    /\ prog = "harness" /\ pc = "test_import"
    /\ LET e == test_import(csv)
       IN IF e # "" THEN Raise(e) /\ UNCHANGED passed ELSE Passed("test_import", "test_eda")
    /\ UNCHANGED <<heap, parts, files, written, prog, csv, calls>>
    /\ StageIdle

RunTestEda ==
    /\ prog = "harness" /\ pc = "test_eda"
    /\ LET r == test_eda(csv, files)
       IN /\ Save(r.wrote)
          /\ IF r.raised # "" THEN Raise(r.raised) /\ UNCHANGED passed
             ELSE Passed("test_eda", "test_encoder_helper")
    /\ UNCHANGED <<heap, parts, prog, csv, calls>>
    /\ StageIdle

RunTestEncoderHelper ==
    /\ prog = "harness" /\ pc = "test_encoder_helper"
    /\ LET e == test_encoder_helper(csv)
       IN IF e # "" THEN Raise(e) /\ UNCHANGED passed
          ELSE Passed("test_encoder_helper", "test_perform_feature_engineering")
    /\ UNCHANGED <<heap, parts, files, written, prog, csv, calls>>
    /\ StageIdle

RunTestPerformFeatureEngineering ==
    /\ prog = "harness" /\ pc = "test_perform_feature_engineering"
    /\ \E perm \in Permutations(1..NRows(csv.table)) :
          LET r == test_perform_feature_engineering(csv, perm)
          IN calls' = calls \cup r.calls
    /\ Passed("test_perform_feature_engineering", "test_train_models")
    /\ UNCHANGED <<heap, parts, files, written, prog, csv>>
    /\ StageIdle

RunTestTrainModels ==
    /\ prog = "harness" /\ pc = "test_train_models"
    /\ \E perm \in Permutations(1..NRows(csv.table)), saved \in 0..Len(TrainOutputs) :
          LET r == test_train_models(csv, perm, saved, files)
          IN /\ Save(r.wrote)
             /\ calls' = calls \cup r.calls
             /\ parts' = r.parts
             /\ IF r.raised # "" THEN Raise(r.raised) /\ UNCHANGED passed
                ELSE Passed("test_train_models", "done")
    /\ UNCHANGED <<heap, prog, csv>>
    /\ StageIdle

NextRun ==
    \/ ScriptImport
    \/ ScriptEda
    \/ ScriptFeatureEngineering
    \/ ScriptTrain
    \/ HarnessLoad
    \/ RunTestImport
    \/ RunTestEda
    \/ RunTestEncoderHelper
    \/ RunTestPerformFeatureEngineering
    \/ RunTestTrainModels

SpecRun == InitRun /\ [][NextRun]_vars

(***************************************************************************)
(* Properties of the stages (checked under Spec)                           *)
(***************************************************************************)
Stages == {"perform_eda", "encoder_helper", "perform_feature_engineering"}

\* the last call was of op and returned a table
Returned(op) == call.op = op /\ call.raised = ""

\* the table the last call returned
Ret == heap[call.ret]

\* the rows of the caller's table that share row i's value in column category
SameCategory(category, i) ==
    {j \in 1..pre.n : pre.data[category][j] = pre.data[category][i]}

\* v is the mean of Churn over the rows of idx, Churn being 0 or 1 there
IsChurnMean(v, idx) ==
    /\ v.k = "num"
    /\ \A j \in idx : pre.data["Churn"][j] \in {IntCell(0), IntCell(1)}
    /\ v.n * Cardinality(idx) = v.d * Cardinality({j \in idx : pre.data["Churn"][j] = IntCell(1)})

\* the column encoder_helper writes the encoding of category to
Target(category, response) ==
    IF response = None \/ response = Some("") THEN category
    ELSE category \o "_" \o response[1]

\* C1: when encoder_helper returns, the encoded value of every row, in
\* <category>_<response> (response mode) or in the category's own column
\* (overwrite mode), is the mean of Churn over the rows of the input table
\* that share the row's original category value.
C1_EncodedValueIsGroupMean ==
    Returned("encoder_helper") =>
        \A k \in 1..Len(call.category_lst) :
            LET category == call.category_lst[k]
                target == Target(category, call.response)
            IN /\ HasCol(Ret, target)
               /\ \A i \in 1..pre.n :
                     IsChurnMean(Ret.data[target][i], SameCategory(category, i))

C1_Witness ==
    /\ Returned("encoder_helper")
    /\ call.category_lst = <<"Gender">>
    /\ call.response = Some("Churn")
    /\ pre.n = 2
    /\ Ret.data["Gender_Churn"] = <<Num(1, 2), Num(1, 2)>>

\* C2: with an empty category list encoder_helper returns, whatever the
\* response, a table with the columns, the column order and the cells of its
\* input.
C2_EmptyListIsIdentity ==
    (call.op = "encoder_helper" /\ call.category_lst = <<>>) =>
        (call.raised = "" /\ Ret = pre)

C2_Witness ==
    /\ Returned("encoder_helper")
    /\ call.category_lst = <<>>
    /\ call.response = Some("Churn")
    /\ pre.n > 0
    /\ Ret = pre

\* the names <category>_<response> of the last call
Targets == {Target(call.category_lst[k], call.response) : k \in 1..Len(call.category_lst)}

\* C3 as stated: with a non-empty category list and a response name, the
\* returned table has the input's column count plus the length of the list,
\* and every input column is still there, unchanged.
C3_Original ==
    (Returned("encoder_helper") /\ call.category_lst # <<>>
        /\ call.response \notin {None, Some("")}) =>
        /\ Len(Ret.cols) = Len(pre.cols) + Len(call.category_lst)
        /\ \A c \in DOMAIN pre.data : HasCol(Ret, c) /\ Ret.data[c] = pre.data[c]

\* C3 amended: the column count grows by the number of distinct names
\* <category>_<response> that are not yet columns of the input; each of these
\* names is a column of the result; the input's columns keep their order, and
\* every input column that is not one of these names is unchanged.
C3_ColumnsAdded ==
    (Returned("encoder_helper") /\ call.category_lst # <<>>
        /\ call.response \notin {None, Some("")}) =>
        /\ Len(Ret.cols) = Len(pre.cols) + Cardinality(Targets \ DOMAIN pre.data)
        /\ \A c \in Targets : HasCol(Ret, c)
        /\ SubSeq(Ret.cols, 1, Len(pre.cols)) = pre.cols
        /\ \A c \in DOMAIN pre.data \ Targets : Ret.data[c] = pre.data[c]

C3_Witness ==
    /\ Returned("encoder_helper")
    /\ call.category_lst = cat_columns
    /\ call.response = Some("Churn")
    /\ pre.n > 0
    /\ Len(Ret.cols) = Len(pre.cols) + Len(cat_columns)

\* C4 as stated: in overwrite mode, on a table with rows, the returned table
\* has the input's column names in the same order and the values of every
\* encoded column differ from the input's.
C4_Original ==
    (Returned("encoder_helper") /\ call.category_lst # <<>>
        /\ call.response = None /\ pre.n > 0) =>
        /\ Ret.cols = pre.cols
        /\ \A k \in 1..Len(call.category_lst) :
              Ret.data[call.category_lst[k]] # pre.data[call.category_lst[k]]

\* C4 amended: in overwrite mode the returned table has the input's column
\* names in the same order, and the value of an encoded column differs from
\* the input's in every row where the input holds a category label (a value
\* that is not a number).
C4_OverwriteKeepsNames ==
    (Returned("encoder_helper") /\ call.category_lst # <<>> /\ call.response = None) =>
        /\ Ret.cols = pre.cols
        /\ \A k \in 1..Len(call.category_lst) : \A i \in 1..pre.n :
              LET category == call.category_lst[k]
              IN pre.data[category][i].k = "str" =>
                    Ret.data[category][i] # pre.data[category][i]

C4_Witness ==
    /\ Returned("encoder_helper")
    /\ call.category_lst = cat_columns
    /\ call.response = None
    /\ pre.n > 0
    /\ pre.data["Gender"][1] = Str("M")
    /\ Ret.data["Gender"][1].k = "num"

\* C5: on every row of the table perform_eda returns, Churn is 0 when
\* Attrition_Flag is "Existing Customer" and 1 for any other value.
C5_ChurnDerivation ==
    Returned("perform_eda") =>
        /\ HasCol(Ret, "Churn")
        /\ \A i \in 1..pre.n :
              /\ Ret.data["Churn"][i] \in {IntCell(0), IntCell(1)}
              /\ Ret.data["Churn"][i] = IntCell(0)
                    <=> pre.data["Attrition_Flag"][i] = Str("Existing Customer")

C5_Witness ==
    /\ Returned("perform_eda")
    /\ pre.n = 2
    /\ pre.data["Attrition_Flag"] = <<Str("Existing Customer"), Str("Attrited Customer")>>
    /\ Ret.data["Churn"] = <<IntCell(0), IntCell(1)>>

\* the plotted columns other than Churn are columns of the caller's table
PlottedColumnsPresent ==
    \A k \in 1..Len(columns_to_plot) :
        columns_to_plot[k] = "Churn" \/ HasCol(pre, columns_to_plot[k])

\* C6 as stated: a call of perform_eda on a table with a null Attrition_Flag
\* in some row fails.
C6_Original ==
    (call.op = "perform_eda" /\ HasCol(pre, "Attrition_Flag")
        /\ \E i \in 1..pre.n : pre.data["Attrition_Flag"][i] = NaN) =>
        call.raised # ""

\* C6 amended: a null Attrition_Flag does not make the derivation fail:
\* perform_eda, given the columns it reads, returns, and Churn is 1 on every
\* row whose Attrition_Flag is null.
C6_NullFlagIsChurn ==
    (call.op = "perform_eda" /\ HasCol(pre, "Attrition_Flag") /\ PlottedColumnsPresent) =>
        /\ call.raised = ""
        /\ \A i \in 1..pre.n :
              pre.data["Attrition_Flag"][i] = NaN => Ret.data["Churn"][i] = IntCell(1)

C6_Witness ==
    /\ Returned("perform_eda")
    /\ \E i \in 1..pre.n :
          pre.data["Attrition_Flag"][i] = NaN /\ Ret.data["Churn"][i] = IntCell(1)

\* C7: a call of perform_eda, encoder_helper or perform_feature_engineering,
\* whether it returns or raises, leaves the table passed to it as it was.
C7_InputNotMutated == call.op \in Stages => heap[1] = pre

C7_Witness ==
    /\ Returned("encoder_helper")
    /\ ncalls = MaxCalls
    /\ call.ret = 2
    /\ heap[2] # heap[1]
    /\ heap[1] = pre

(***************************************************************************)
(* Properties of the runs (checked under SpecRun)                          *)
(***************************************************************************)
Ended == pc \in {"raised", "done"}

\* C8 as stated: when the dataset does not exist, the run creates or
\* overwrites none of the output files, the run log included, and ends with
\* the not-found error.
C8_Original ==
    ~csv.exists =>
        /\ written = {}
        /\ Ended => (pc = "raised" /\ err = "FileNotFoundError")

\* C8 amended: when the dataset does not exist, the run never gets past its
\* load step and ends there with the not-found error; it creates or
\* overwrites no EDA image, result image or model file; the library script
\* writes no file at all, and the test script writes only its run log.
C8_MissingDataset ==
    ~csv.exists =>
        /\ pc \in {"start", "test_import", "raised"}
        /\ pc = "raised" => err = "FileNotFoundError"
        /\ written \subseteq {LogFile}
        /\ prog = "script" => written = {}

C8_Witness ==
    /\ ~csv.exists
    /\ prog = "harness"
    /\ pc = "raised"
    /\ err = "FileNotFoundError"
    /\ written = {LogFile}

\* C9: every invocation of perform_feature_engineering receives a table that
\* has the Churn column, and every invocation of train_models receives the
\* partitions a successful perform_feature_engineering call returned.
C9_DataFlowsLinearly == \A c \in calls : c.input_ok

\* C10: when test_eda or test_train_models completes without raising, every
\* file it asserted was saved in this run.
C10_AssertedFilesAreFresh ==
    /\ "test_eda" \in passed => EdaImages \subseteq written
    /\ "test_train_models" \in passed => ModelAndResultFiles \subseteq written

====
